---- MODULE Spec2Model ----
(***************************************************************************)
(* Model of data/augmentations.py: the augmentation operator catalog and   *)
(* the shared dispatch routine _BaseAugmentationOp.__call__.               *)
(*                                                                         *)
(* Magnitudes are Python floats; they are modelled in fixed point, as      *)
(* integers counting hundredths (0.45 is 45, 10 is 1000).  A value drawn   *)
(* from random.random() is modelled the same way (0.5 is 50).              *)
(* Python's None is the empty tuple <<>> for tuple-valued fields and the   *)
(* string "None" for random_mirror.                                        *)
(***************************************************************************)
EXTENDS Integers, Sequences, FiniteSets, TLC

VARIABLES args, self, call_args, outcome, drawn, trans, result, prev_negated

vars == <<args, self, call_args, outcome, drawn, trans, result, prev_negated>>

\* ------------------------------------------------------------------------
\* Numbers
\* ------------------------------------------------------------------------

\* fixed-point unit: one whole is Unit hundredths
Unit == 100

\* the literal 0.5 of `0.5 < random.random()`
Half == 50

\* bounds of the explored inputs
MaxMag == 3
MaxWidth == 2
MaxThreshold == 1

Neg(m) == 0 - m

Max(a, b) == IF a >= b THEN a ELSE b

Min(a, b) == IF a <= b THEN a ELSE b

\* Python int(m): truncation toward zero
int(m) == IF m >= 0 THEN m \div Unit ELSE Neg(Neg(m) \div Unit)

\* mathematical floor(m)
floor(m) == m \div Unit

\* ------------------------------------------------------------------------
\* Construction
\* ------------------------------------------------------------------------

NotPassed == <<>>

Passed(v) == <<v>>

None == <<>>

MirrorClasses ==
    {"ShearX", "ShearY", "TranslateX", "TranslateY",
     "TranslateXAbs", "TranslateYAbs", "Rotate"}

BaseInitClasses ==
    {"AutoContrast", "Invert", "Equalize", "Flip", "Posterize", "Identity"}

LimitOnlyClasses == {"Solarize", "Contrast", "Color", "Brightness", "Sharpness"}

Classes == MirrorClasses \cup BaseInitClasses \cup LimitOnlyClasses \cup {"SolarizeAdd"}

\* _BaseAugmentationOp.__init__(magnitude_limit=None, random_mirror=None)
BaseAugmentationOp_init(cls, magnitude_limit, random_mirror) ==
    [cls |-> cls,
     magnitude_limit |-> magnitude_limit,
     random_mirror |-> random_mirror,
     threshold |-> None]

\* variant: Posterize declares a range of bit counts
DefaultMagnitudeLimit_posterize_limited(cls) ==
    CASE cls \in {"ShearX", "ShearY"} -> <<-30, 30>>
      [] cls \in {"TranslateX", "TranslateY"} -> <<-45, 45>>
      [] cls \in {"TranslateXAbs", "TranslateYAbs"} -> <<0, 10 * Unit>>
      [] cls = "Rotate" -> <<-30 * Unit, 30 * Unit>>
      [] cls = "Solarize" -> <<0, 256 * Unit>>
      [] cls \in {"Contrast", "Color", "Brightness", "Sharpness"} -> <<10, 190>>
      [] cls = "Posterize" -> <<0, 8 * Unit>>
      [] OTHER -> None

\* the default value of the magnitude_limit parameter of each __init__
DefaultMagnitudeLimit(cls) ==
    CASE cls \in {"ShearX", "ShearY"} -> <<-30, 30>>
      [] cls \in {"TranslateX", "TranslateY"} -> <<-45, 45>>
      [] cls \in {"TranslateXAbs", "TranslateYAbs"} -> <<0, 10 * Unit>>
      [] cls = "Rotate" -> <<-30 * Unit, 30 * Unit>>
      [] cls = "Solarize" -> <<0, 256 * Unit>>
      [] cls \in {"Contrast", "Color", "Brightness", "Sharpness"} -> <<10, 190>>
      [] OTHER -> None

\* variant: Brightness and Sharpness pass random_mirror=True
DefaultRandomMirror_enhancers_mirrored(cls) ==
    IF cls \in MirrorClasses \cup {"Brightness", "Sharpness"} THEN "True" ELSE "None"

\* the random_mirror each __init__ hands to the base __init__ when the
\* caller passes none
DefaultRandomMirror(cls) ==
    IF cls \in MirrorClasses THEN "True" ELSE "None"

DefaultThreshold == 128

ArgOr(a, default) == IF a = NotPassed THEN default ELSE a[1]

\* cls(**a): the __init__ of the class, which ends in the base __init__
Construct(a) ==
    LET base == BaseAugmentationOp_init(
                    a.cls,
                    ArgOr(a.magnitude_limit, DefaultMagnitudeLimit(a.cls)),
                    ArgOr(a.random_mirror, DefaultRandomMirror(a.cls)))
    IN  IF a.cls = "SolarizeAdd"
        THEN [base EXCEPT !.threshold = <<ArgOr(a.threshold, DefaultThreshold)>>]
        ELSE base

\* ------------------------------------------------------------------------
\* Inputs
\* ------------------------------------------------------------------------

CustomLimit == <<-Unit, Unit>>

Thresholds == {64 * k : k \in 1..MaxThreshold}

NoArgs(cls) ==
    [cls |-> cls, magnitude_limit |-> NotPassed,
     random_mirror |-> NotPassed, threshold |-> NotPassed]

\* the argument lists each __init__ accepts
ArgSets ==
    {[cls |-> c, magnitude_limit |-> l, random_mirror |-> r, threshold |-> NotPassed] :
        c \in MirrorClasses,
        l \in {NotPassed, Passed(CustomLimit)},
        r \in {NotPassed, Passed("True"), Passed("False")}}
    \cup
    {[cls |-> c, magnitude_limit |-> l, random_mirror |-> r, threshold |-> NotPassed] :
        c \in BaseInitClasses,
        l \in {NotPassed, Passed(CustomLimit)},
        r \in {NotPassed, Passed("True"), Passed("False")}}
    \cup
    {[cls |-> c, magnitude_limit |-> l, random_mirror |-> NotPassed, threshold |-> NotPassed] :
        c \in LimitOnlyClasses,
        l \in {NotPassed, Passed(CustomLimit)}}
    \cup
    {[cls |-> "SolarizeAdd", magnitude_limit |-> NotPassed,
      random_mirror |-> NotPassed, threshold |-> t] :
        t \in {NotPassed} \cup {Passed(x) : x \in Thresholds}}

Image(size, px) == [size |-> size, px |-> px]

PixelRows == << <<0, 255>>, <<127, 128>>, <<5, 200>> >>

\* a 100x1 image, and images w pixels wide for small w
Images ==
    {Image(<<100, 1>>, <<250, 100>>)}
    \cup {Image(<<w, 2>>, PixelRows[((w - 1) % Len(PixelRows)) + 1]) : w \in 1..MaxWidth}

\* the magnitudes tried on an operator: the ends of its range and their
\* neighbours, halves around zero, and a few large values
Magnitudes(s) ==
    {k * Half : k \in (0 - MaxMag)..MaxMag}
    \cup {10, 20 * Unit, -20 * Unit}
    \cup (IF s.magnitude_limit = None THEN {}
          ELSE {s.magnitude_limit[1] - 1, s.magnitude_limit[1],
                s.magnitude_limit[2] - 1, s.magnitude_limit[2],
                s.magnitude_limit[2] + 1})

\* values random.random() can return, in [0, 1)
RandomValues == {0, Half, Half + 1}

\* ------------------------------------------------------------------------
\* Transformations.  The PIL primitives are external: a transformation's
\* value is the primitive it calls, the image it hands over and the
\* numeric arguments (in hundredths).
\* ------------------------------------------------------------------------

Prim(name, img, arg) == [prim |-> name, img |-> img, arg |-> arg]

\* img.transform(img.size, PIL.Image.AFFINE, data)
Affine(img, data) == Prim("transform", img, data)

ShearX_apply_transformation(s, img, m) ==
    Affine(img, <<Unit, m, 0, 0, Unit, 0>>)

ShearY_apply_transformation(s, img, m) ==
    Affine(img, <<Unit, 0, 0, m, Unit, 0>>)

TranslateX_apply_transformation(s, img, m) ==
    Affine(img, <<Unit, 0, m * img.size[1], 0, Unit, 0>>)

TranslateY_apply_transformation(s, img, m) ==
    Affine(img, <<Unit, 0, 0, 0, Unit, m * img.size[2]>>)

\* variant: the absolute translation is scaled by the width
TranslateXAbs_scaled(s, img, m) ==
    Affine(img, <<Unit, 0, m * img.size[1], 0, Unit, 0>>)

TranslateXAbs_apply_transformation(s, img, m) ==
    Affine(img, <<Unit, 0, m, 0, Unit, 0>>)

TranslateYAbs_apply_transformation(s, img, m) ==
    Affine(img, <<Unit, 0, 0, 0, Unit, m>>)

Rotate_apply_transformation(s, img, m) == Prim("rotate", img, <<m>>)

AutoContrast_apply_transformation(s, img, m) == Prim("autocontrast", img, <<>>)

Invert_apply_transformation(s, img, m) == Prim("invert", img, <<>>)

Equalize_apply_transformation(s, img, m) == Prim("equalize", img, <<>>)

Flip_apply_transformation(s, img, m) == Prim("flip", img, <<>>)

Solarize_apply_transformation(s, img, m) == Prim("solarize", img, <<m>>)

\* variant: no clipping before the cast
clip_none(x) == x

\* np.clip(x, 0, 255) on one element, x in hundredths
clip(x) == Min(255 * Unit, Max(0, x))

\* astype(np.uint8) of a clipped element: the fraction is dropped
astype_uint8(x) == (x \div Unit) % 256

\* np.array(img, dtype=int) + m, np.clip, astype(np.uint8), elementwise
SolarizeAdd_pixels(px, m) ==
    [i \in DOMAIN px |-> astype_uint8(clip(px[i] * Unit + m))]

SolarizeAdd_apply_transformation(s, img, m) ==
    Prim("solarize", Image(img.size, SolarizeAdd_pixels(img.px, m)),
         <<s.threshold[1] * Unit>>)

\* variant: the bit count is not clamped
Posterize_bits_unclamped(m) == int(m)

\* max(1, int(m))
Posterize_bits(m) == Max(1, int(m))

Posterize_apply_transformation(s, img, m) ==
    Prim("posterize", img, <<Posterize_bits(m)>>)

Contrast_apply_transformation(s, img, m) == Prim("Contrast.enhance", img, <<m>>)

Color_apply_transformation(s, img, m) == Prim("Color.enhance", img, <<m>>)

Brightness_apply_transformation(s, img, m) == Prim("Brightness.enhance", img, <<m>>)

Sharpness_apply_transformation(s, img, m) == Prim("Sharpness.enhance", img, <<m>>)

\* Identity returns img itself: no primitive is called
Identity_apply_transformation(s, img, m) == Prim("none", img, <<>>)

\* self._apply_transformation(img, m): dispatch on the class of self
apply_transformation(s, img, m) ==
    CASE s.cls = "ShearX" -> ShearX_apply_transformation(s, img, m)
      [] s.cls = "ShearY" -> ShearY_apply_transformation(s, img, m)
      [] s.cls = "TranslateX" -> TranslateX_apply_transformation(s, img, m)
      [] s.cls = "TranslateY" -> TranslateY_apply_transformation(s, img, m)
      [] s.cls = "TranslateXAbs" -> TranslateXAbs_apply_transformation(s, img, m)
      [] s.cls = "TranslateYAbs" -> TranslateYAbs_apply_transformation(s, img, m)
      [] s.cls = "Rotate" -> Rotate_apply_transformation(s, img, m)
      [] s.cls = "AutoContrast" -> AutoContrast_apply_transformation(s, img, m)
      [] s.cls = "Invert" -> Invert_apply_transformation(s, img, m)
      [] s.cls = "Equalize" -> Equalize_apply_transformation(s, img, m)
      [] s.cls = "Flip" -> Flip_apply_transformation(s, img, m)
      [] s.cls = "Solarize" -> Solarize_apply_transformation(s, img, m)
      [] s.cls = "SolarizeAdd" -> SolarizeAdd_apply_transformation(s, img, m)
      [] s.cls = "Posterize" -> Posterize_apply_transformation(s, img, m)
      [] s.cls = "Contrast" -> Contrast_apply_transformation(s, img, m)
      [] s.cls = "Color" -> Color_apply_transformation(s, img, m)
      [] s.cls = "Brightness" -> Brightness_apply_transformation(s, img, m)
      [] s.cls = "Sharpness" -> Sharpness_apply_transformation(s, img, m)
      [] s.cls = "Identity" -> Identity_apply_transformation(s, img, m)

\* ------------------------------------------------------------------------
\* Dispatch: _BaseAugmentationOp.__call__
\* ------------------------------------------------------------------------

\* variant: the range is closed, max_magnitude is accepted
exceeds_limit_closed(s, magnitude) ==
    /\ s.magnitude_limit # None
    /\ ~(s.magnitude_limit[1] <= magnitude /\ magnitude <= s.magnitude_limit[2])

\* variant: only the upper end is checked
exceeds_limit_upper_only(s, magnitude) ==
    /\ s.magnitude_limit # None
    /\ ~(magnitude < s.magnitude_limit[2])

\* `not min_magnitude <= magnitude < max_magnitude`, when a limit is set
exceeds_limit(s, magnitude) ==
    /\ s.magnitude_limit # None
    /\ ~(s.magnitude_limit[1] <= magnitude /\ magnitude < s.magnitude_limit[2])

\* `self.random_mirror and ...`: random.random() is evaluated only when
\* random_mirror is truthy
draws_random(s) == s.random_mirror = "True"

\* variant: 0.5 <= random.random()
mirrored_at_half(s, magnitude, r) ==
    IF draws_random(s) /\ Half <= r THEN Neg(magnitude) ELSE magnitude

\* the magnitude after `if self.random_mirror and 0.5 < random.random()`
mirrored(s, magnitude, r) ==
    IF draws_random(s) /\ Half < r THEN Neg(magnitude) ELSE magnitude

\* variant: the random value is drawn before the range check
BaseAugmentationOp_call_draw_first(s, img, magnitude, r) ==
    IF exceeds_limit(s, magnitude)
    THEN [outcome |-> "ValueError",
          drawn |-> IF draws_random(s) THEN <<r>> ELSE <<>>,
          trans |-> <<>>, result |-> <<>>, self |-> s]
    ELSE [outcome |-> "returned",
          drawn |-> IF draws_random(s) THEN <<r>> ELSE <<>>,
          trans |-> <<mirrored(s, magnitude, r)>>,
          result |-> <<apply_transformation(s, img, mirrored(s, magnitude, r))>>,
          self |-> s]

\* variant: a call that mirrors switches random_mirror off on self
BaseAugmentationOp_call_storing(s, img, magnitude, r) ==
    IF exceeds_limit(s, magnitude)
    THEN [outcome |-> "ValueError", drawn |-> <<>>, trans |-> <<>>,
          result |-> <<>>, self |-> s]
    ELSE [outcome |-> "returned",
          drawn |-> IF draws_random(s) THEN <<r>> ELSE <<>>,
          trans |-> <<mirrored(s, magnitude, r)>>,
          result |-> <<apply_transformation(s, img, mirrored(s, magnitude, r))>>,
          self |-> IF draws_random(s) /\ Half < r
                   THEN [s EXCEPT !.random_mirror = "False"] ELSE s]

\* one run of __call__(img, magnitude) in which random.random() would
\* return r: what it raises or returns, the values it drew, the magnitudes
\* it handed to _apply_transformation, and self afterwards
BaseAugmentationOp_call(s, img, magnitude, r) ==
    IF exceeds_limit(s, magnitude)
    THEN [outcome |-> "ValueError", drawn |-> <<>>, trans |-> <<>>,
          result |-> <<>>, self |-> s]
    ELSE [outcome |-> "returned",
          drawn |-> IF draws_random(s) THEN <<r>> ELSE <<>>,
          trans |-> <<mirrored(s, magnitude, r)>>,
          result |-> <<apply_transformation(s, img, mirrored(s, magnitude, r))>>,
          self |-> s]

\* ------------------------------------------------------------------------
\* State machine: one operator, constructed once and called many times
\* ------------------------------------------------------------------------

\* the call just made handed over a negated magnitude
Negated == outcome = "returned" /\ trans # <<call_args.magnitude>>

Init ==
    /\ args \in ArgSets
    /\ self = Construct(args)
    /\ call_args = [img |-> Image(<<1, 1>>, <<0>>), magnitude |-> 0]
    /\ outcome = "none"
    /\ drawn = <<>>
    /\ trans = <<>>
    /\ result = <<>>
    /\ prev_negated = FALSE

Call(img, magnitude, r) ==
    LET c == BaseAugmentationOp_call(self, img, magnitude, r)
    IN  /\ call_args' = [img |-> img, magnitude |-> magnitude]
        /\ outcome' = c.outcome
        /\ drawn' = c.drawn
        /\ trans' = c.trans
        /\ result' = c.result
        /\ self' = c.self
        /\ prev_negated' = Negated
        /\ UNCHANGED args

Next ==
    \E img \in Images, magnitude \in Magnitudes(self), r \in RandomValues :
        Call(img, magnitude, r)

Spec == Init /\ [][Next]_vars

TypeOK ==
    /\ args \in ArgSets
    /\ outcome \in {"none", "returned", "ValueError"}
    /\ Len(drawn) <= 1
    /\ Len(trans) <= 1
    /\ Len(result) <= 1

\* ------------------------------------------------------------------------
\* Properties
\* ------------------------------------------------------------------------

Abs(x) == IF x >= 0 THEN x ELSE Neg(x)

called == outcome # "none"

returned == outcome = "returned"

raised == outcome = "ValueError"

limited == self.magnitude_limit # None

lo == self.magnitude_limit[1]

hi == self.magnitude_limit[2]

InRange(m) == lo <= m /\ m < hi

magnitude == call_args.magnitude

\* C1: on an operator whose magnitude_limit is (lo, hi), a call returns when
\* lo <= magnitude < hi and raises ValueError when magnitude < lo or
\* magnitude >= hi; magnitude == lo is accepted, magnitude == hi rejected.
C1_HalfOpenRange ==
    (called /\ limited) =>
        /\ InRange(magnitude) => returned
        /\ (magnitude < lo \/ magnitude >= hi) => raised

C1_Witness == limited /\ magnitude = hi /\ raised

\* C2 as stated: every magnitude handed to the transformation of an operator
\* with a magnitude_limit lies in [lo, hi), mirrored operators included.
C2_Original ==
    (returned /\ limited) => InRange(trans[1])

\* C2 amended: a call reaches the transformation only with an argument
\* magnitude in [lo, hi); the value handed over is that magnitude, or its
\* negation on a mirrored operator, and lies in [lo, hi) whenever
\* random_mirror is not true.
C2_ValidatedBeforeMirror ==
    (Len(trans) > 0 /\ limited) =>
        /\ InRange(magnitude)
        /\ trans[1] \in {magnitude, Neg(magnitude)}
        /\ self.random_mirror # "True" => InRange(trans[1])

C2_Witness ==
    /\ returned /\ limited /\ self.random_mirror = "True"
    /\ InRange(magnitude)
    /\ trans = <<Neg(magnitude)>>
    /\ ~InRange(trans[1])

\* C3: a call that raises ValueError has drawn no random value and has not
\* invoked the transformation, with or without random_mirror.
C3_RaiseBeforeRandomization ==
    raised => (drawn = <<>> /\ trans = <<>> /\ result = <<>>)

C3_Witness == raised /\ self.random_mirror = "True" /\ drawn = <<>>

\* the operator table: column 'Default range'
TableRange(cls) ==
    CASE cls \in {"ShearX", "ShearY"} -> <<-30, 30>>
      [] cls \in {"TranslateX", "TranslateY"} -> <<-45, 45>>
      [] cls \in {"TranslateXAbs", "TranslateYAbs"} -> <<0, 1000>>
      [] cls = "Rotate" -> <<-3000, 3000>>
      [] cls = "Solarize" -> <<0, 25600>>
      [] cls \in {"Contrast", "Color", "Brightness", "Sharpness"} -> <<10, 190>>
      [] cls \in {"AutoContrast", "Invert", "Equalize", "Flip", "SolarizeAdd",
                  "Posterize", "Identity"} -> <<>>

\* the operator table: the operators whose column 'Mirror' says yes
TableMirrorYes ==
    {"ShearX", "ShearY", "TranslateX", "TranslateY", "TranslateXAbs",
     "TranslateYAbs", "Rotate", "Brightness", "Sharpness"}

constructed_with_no_arguments == args = NoArgs(args.cls)

\* C4 as stated: an operator constructed with no arguments has the range
\* and the mirror setting of its table row, Brightness and Sharpness with
\* random mirror enabled.
C4_Original ==
    constructed_with_no_arguments =>
        /\ self.magnitude_limit = TableRange(self.cls)
        /\ (self.random_mirror = "True") <=> (self.cls \in TableMirrorYes)

\* C4 amended: an operator constructed with no arguments has the range of
\* its table row; random mirror is enabled for ShearX, ShearY, TranslateX,
\* TranslateY, TranslateXAbs, TranslateYAbs and Rotate and unset for every
\* other operator, Brightness and Sharpness included.
C4_Defaults ==
    constructed_with_no_arguments =>
        /\ self.magnitude_limit = TableRange(self.cls)
        /\ self.cls \in (TableMirrorYes \ {"Brightness", "Sharpness"})
               => self.random_mirror = "True"
        /\ self.cls \notin (TableMirrorYes \ {"Brightness", "Sharpness"})
               => self.random_mirror = "None"

C4_Witness ==
    /\ args = NoArgs("Brightness")
    /\ self.magnitude_limit = <<10, 190>>
    /\ self.random_mirror = "None"
    /\ returned /\ drawn = <<>> /\ trans = <<magnitude>>

\* C5: a call that passes validation on an operator with random_mirror true
\* draws exactly one value r of [0, 1) and hands over -magnitude when
\* r > 0.5 and magnitude when r <= 0.5; with random_mirror false or unset it
\* draws nothing and hands over magnitude.  The transformation is invoked
\* once and its result is what the call returns.
C5_MirrorDecision ==
    returned =>
        /\ IF self.random_mirror = "True"
           THEN /\ Len(drawn) = 1
                /\ 0 <= drawn[1] /\ drawn[1] < Unit
                /\ drawn[1] > Half => trans = <<Neg(magnitude)>>
                /\ drawn[1] <= Half => trans = <<magnitude>>
           ELSE drawn = <<>> /\ trans = <<magnitude>>
        /\ Len(trans) = 1
        /\ result = <<apply_transformation(self, call_args.img, trans[1])>>

C5_Witness ==
    /\ returned /\ self.random_mirror = "True"
    /\ drawn = <<Half>> /\ magnitude # 0 /\ trans = <<magnitude>>

\* the horizontal offset of the affine map of the call's result
offset_x == result[1].arg[3]

width == call_args.img.size[1]

\* C6 as stated: TranslateX with defaults, width 100 and magnitude 0.1
\* shifts by 10 pixels; TranslateXAbs with defaults and magnitude 10 shifts
\* by exactly 10 pixels whatever the width.
C6_Original ==
    /\ (called /\ args = NoArgs("TranslateX") /\ width = 100 /\ magnitude = 10)
           => (returned /\ Abs(offset_x) = 10 * Unit)
    /\ (called /\ args = NoArgs("TranslateXAbs") /\ magnitude = 10 * Unit)
           => (returned /\ Abs(offset_x) = 10 * Unit)

\* C6 amended: TranslateX with defaults shifts by magnitude * width pixels
\* to one side or the other (10 pixels for width 100 and magnitude 0.1);
\* TranslateXAbs with defaults rejects magnitude 10, the excluded end of its
\* range [0, 10), and for a magnitude it accepts shifts by exactly that many
\* pixels to one side or the other, whatever the width.
C6_TranslateOffsets ==
    /\ (called /\ args = NoArgs("TranslateX") /\ InRange(magnitude)) =>
           /\ returned
           /\ Abs(offset_x) = Abs(magnitude) * width
           /\ (width = 100 /\ magnitude = 10) => Abs(offset_x) = 10 * Unit
    /\ (called /\ args = NoArgs("TranslateXAbs")) =>
           /\ magnitude = 10 * Unit => raised
           /\ InRange(magnitude) => (returned /\ Abs(offset_x) = magnitude)

C6_Witness ==
    /\ args = NoArgs("TranslateXAbs") /\ returned
    /\ width = 100 /\ magnitude = 10 * Unit - 1
    /\ Abs(offset_x) = magnitude

\* C7: after any sequence of calls, raising, returning or mirroring, the
\* operator's magnitude_limit, random_mirror and threshold are those set at
\* construction, and a call that does not itself mirror hands over its own
\* magnitude even when the call before it mirrored.
C7_ConfigurationFixed ==
    /\ self = Construct(args)
    /\ (returned /\ (drawn = <<>> \/ drawn[1] <= Half)) => trans = <<magnitude>>

C7_Witness ==
    /\ prev_negated /\ returned /\ drawn # <<>>
    /\ magnitude # 0 /\ trans = <<magnitude>>
    /\ self = Construct(args)

UnlimitedClasses ==
    {"AutoContrast", "Invert", "Equalize", "Flip", "SolarizeAdd",
     "Posterize", "Identity"}

\* C8: AutoContrast, Invert, Equalize, Flip, SolarizeAdd, Posterize and
\* Identity constructed with defaults have no magnitude_limit, and a call
\* with any magnitude, negative or large, returns after invoking the
\* transformation and never raises ValueError.
C8_NoValidation ==
    (constructed_with_no_arguments /\ self.cls \in UnlimitedClasses) =>
        /\ ~limited
        /\ called => (returned /\ Len(trans) = 1 /\ Len(result) = 1)

C8_Witness ==
    /\ args = NoArgs("Posterize") /\ magnitude = -20 * Unit
    /\ returned /\ trans = <<magnitude>>

\* C9: the bit count Posterize hands to the posterize primitive is
\* max(1, floor(m)) for every m it receives, hence at least 1; truncating
\* toward zero instead of flooring gives the same count.
C9_PosterizeBits ==
    (returned /\ self.cls = "Posterize") =>
        /\ result[1].prim = "posterize"
        /\ result[1].arg = <<Max(1, floor(trans[1]))>>
        /\ result[1].arg[1] >= 1

C9_Witness ==
    /\ returned /\ self.cls = "Posterize"
    /\ trans = <<-150>>
    /\ int(trans[1]) # floor(trans[1])
    /\ result[1].arg = <<1>>

\* the image SolarizeAdd hands to the solarize primitive
solarized_px == result[1].img.px

\* C10 as stated: SolarizeAdd hands to solarize, with the construction-time
\* threshold, the image whose every channel value is
\* min(255, max(0, v + m)).
C10_Original ==
    (returned /\ self.cls = "SolarizeAdd") =>
        /\ result[1].prim = "solarize"
        /\ result[1].arg = <<self.threshold[1] * Unit>>
        /\ \A i \in DOMAIN call_args.img.px :
               solarized_px[i] * Unit
                   = Min(255 * Unit, Max(0, call_args.img.px[i] * Unit + trans[1]))

\* C10 amended: SolarizeAdd hands to solarize, with the construction-time
\* threshold (128 by default) whatever m is, the image whose every channel
\* value is min(255, max(0, v + m)) with its fraction dropped: the sum does
\* not wrap around, and for an integral m nothing is dropped.
C10_SolarizeAddClamp ==
    (returned /\ self.cls = "SolarizeAdd") =>
        /\ result[1].prim = "solarize"
        /\ result[1].arg = <<self.threshold[1] * Unit>>
        /\ constructed_with_no_arguments => self.threshold = <<128>>
        /\ DOMAIN solarized_px = DOMAIN call_args.img.px
        /\ \A i \in DOMAIN call_args.img.px :
               LET sum == Min(255 * Unit, Max(0, call_args.img.px[i] * Unit + trans[1]))
               IN  /\ solarized_px[i] = sum \div Unit
                   /\ trans[1] % Unit = 0 => solarized_px[i] * Unit = sum

C10_Witness ==
    /\ returned /\ self.cls = "SolarizeAdd"
    /\ call_args.img.px[1] = 250 /\ trans = <<20 * Unit>>
    /\ solarized_px[1] = 255

====
